---- MODULE Spec2Model ----
(***************************************************************************)
(* A model of the terminal ray caster in src/main.py (class Game).         *)
(*                                                                         *)
(* Numbers.  The program computes with Python floats.  The model computes  *)
(* with fixed-point integers: a length x (in map cells) is the integer     *)
(* x * SCALE, an angle a (in radians) is the integer a * SCALE, and a      *)
(* value of sin, cos or tan is scaled by SCALE as well.  Every float       *)
(* operation of the source is translated to the corresponding fixed-point  *)
(* operation; a float division keeps its ZeroDivisionError.                *)
(***************************************************************************)
EXTENDS Integers, Sequences, FiniteSets, TLC

SCALE == 10 ^ 3

\* ------------------------------------------------------------------------
\* Bounds of the model
\* ------------------------------------------------------------------------
\* get_terminal_size().columns / .lines (main.py:11): any terminal size is
\* possible; the model checks a small one.
VW == 2
VH == 4
\* The game loop runs for ever and a key that is held down repeats: the
\* model reads every sequence of keys made of at most MaxRuns runs of one
\* repeated key.
MaxRuns == 3
\* player_angle is unbounded; the model lets it leave its initial value by
\* at most MaxTurn steps of STEP_SIZE to the left.
MaxTurn == 2
\* The angles a cast is called with directly: the multiples of pi/4 from
\* -MaxQuarter * pi/4 to MaxQuarter * pi/4.
MaxQuarter == 4

\* ------------------------------------------------------------------------
\* Constants of the program
\* ------------------------------------------------------------------------
WALL_HEIGHT == VH                         \* main.py:13
MAP ==                                    \* main.py:17-26
    << \b1111111111111111,
       \b1010001000000001,
       \b1010011000011001,
       \b1000000000011001,
       \b1000011111000011,
       \b1100001100000111,
       \b1100000000001011,
       \b1111111111111111 >>
PI == 3142                                \* math.pi
FOV == (PI * 10) \div 27                  \* main.py:34  math.pi / 2.7
HALF_FOV == FOV \div 2                    \* main.py:35
STEP_SIZE == 80                           \* main.py:36  0.08
ANGLE_STEP == FOV \div VW                 \* main.py:40
MARCH_CAP == 256                          \* main.py:155, 179  range(256)

\* ------------------------------------------------------------------------
\* Fixed-point arithmetic
\* ------------------------------------------------------------------------
Abs(n) == IF n < 0 THEN -n ELSE n

Sign(n) == IF n < 0 THEN -1 ELSE IF n > 0 THEN 1 ELSE 0

\* Python's int(x) of a float: truncation towards zero, in whole cells.
Trunc(x) == IF x >= 0 THEN x \div SCALE ELSE -((-x) \div SCALE)

\* math.floor(x) and math.ceil(x), as fixed-point values.
Floor(x) == (x \div SCALE) * SCALE

Ceil(x) == -((-x) \div SCALE) * SCALE

\* The quotient a / b of two floats (b # 0), rounded to the nearest unit.
Quot(a, b) ==
    LET n == Abs(a)
        d == Abs(b)
    IN  Sign(a) * Sign(b) * ((n + d \div 2) \div d)

\* a * b of two fixed-point values, as a fixed-point value (the whole cells
\* of a are multiplied apart, which keeps the product within the integers).
Mul(a, b) ==
    LET ah == Trunc(a)
        al == a - ah * SCALE
    IN  ah * b + Quot(al * b, SCALE)

\* a / b of two fixed-point values (b # 0), as a fixed-point value.
Div(a, b) == Quot(a * SCALE, b)

\* The integer square root: the greatest r with r * r <= n.
RECURSIVE ISqrtBetween(_, _, _)
ISqrtBetween(n, lo, hi) ==
    IF lo >= hi THEN lo
    ELSE LET mid == (lo + hi + 1) \div 2
         IN  IF mid * mid <= n THEN ISqrtBetween(n, mid, hi)
                               ELSE ISqrtBetween(n, lo, mid - 1)

ISqrt(n) == ISqrtBetween(n, 0, 46340)

\* math.cos and math.sin on [0, pi/2] by their Taylor polynomials.
CosQ(x) ==
    LET x2 == (x * x) \div SCALE
        x4 == (x2 * x2) \div SCALE
        x6 == (x4 * x2) \div SCALE
        x8 == (x6 * x2) \div SCALE
    IN  SCALE - (x2 \div 2) + (x4 \div 24) - (x6 \div 720) + (x8 \div 40320)

SinQ(x) ==
    LET x2 == (x * x) \div SCALE
        x3 == (x2 * x) \div SCALE
        x5 == (x3 * x2) \div SCALE
        x7 == (x5 * x2) \div SCALE
        x9 == (x7 * x2) \div SCALE
    IN  x - (x3 \div 6) + (x5 \div 120) - (x7 \div 5040) + (x9 \div 362880)

\* math.cos(a) and math.sin(a): reduction of a to the first quadrant.
Cos(a) ==
    LET r == a % (2 * PI)
    IN  IF r <= PI \div 2 THEN CosQ(r)
        ELSE IF r <= PI THEN -CosQ(PI - r)
        ELSE IF r <= PI + PI \div 2 THEN -CosQ(r - PI)
        ELSE CosQ(2 * PI - r)

Sin(a) ==
    LET r == a % (2 * PI)
    IN  IF r <= PI \div 2 THEN SinQ(r)
        ELSE IF r <= PI THEN SinQ(PI - r)
        ELSE IF r <= PI + PI \div 2 THEN -SinQ(r - PI)
        ELSE -SinQ(2 * PI - r)

\* math.tan(a).  A float tangent is never infinite and is zero at 0.0 only
\* (no float is an exact multiple of pi, no float is exactly pi/2): where
\* the fixed-point quotient degenerates, the result is the nearest value
\* that is representable and not degenerate.
TAN_MAX == 2 * SCALE * SCALE

TanOf(a, s, c) ==
    LET t == IF c = 0 THEN 0 ELSE Div(s, c)
    IN  IF a = 0 THEN 0
        ELSE IF c = 0 THEN Sign(s) * TAN_MAX
        ELSE IF t # 0 THEN t
        ELSE IF s # 0 THEN Sign(s) * Sign(c)
        ELSE -Sign(a)

Tan(a) == TanOf(a, Sin(a), Cos(a))

\* Game.distance (main.py:85-87): sqrt(a**2 + b**2).  Long legs are halved
\* until their squares fit the integers.
RECURSIVE distance(_, _)
distance(a, b) ==
    IF Abs(a) <= 30000 /\ Abs(b) <= 30000
    THEN ISqrt(a * a + b * b)
    ELSE 16 * distance(Quot(a, 16), Quot(b, 16))

\* ------------------------------------------------------------------------
\* Map model
\* ------------------------------------------------------------------------
\* Bit k of the non-negative integer n (n & (1 << k)) != 0.
Bit(n, k) == IF k > 30 THEN FALSE ELSE (n \div (2 ^ k)) % 2 = 1

\* self.MAP[i] for a Python index i: a negative index counts from the end
\* of the list; an index outside -len..len-1 raises IndexError.
IndexInRange(i) == -Len(MAP) <= i /\ i < Len(MAP)

MapRow(i) == IF i >= 0 THEN MAP[i + 1] ELSE MAP[Len(MAP) + i + 1]

\* Game.point_in_wall (main.py:89-98).
point_in_wall(x, y) ==
    IF IndexInRange(Trunc(y))
    THEN Bit(MapRow(Trunc(y)), Abs(Trunc(x) - 1))
    ELSE TRUE                             \* except IndexError: return True

\* ------------------------------------------------------------------------
\* Ray caster
\* ------------------------------------------------------------------------
\* The result of a cast: err is TRUE when the call raised ZeroDivisionError,
\* steps is the number of iterations of the march loop that were begun.
Raised == [err |-> TRUE, dist |-> 0, steps |-> 0]

\* The loop of horizontal_intersection (main.py:155-165) from iteration i.
RECURSIVE HMarch(_, _, _, _, _, _, _, _)
HMarch(i, next_x, next_y, dx, dy, up, px, py) ==
    IF i = MARCH_CAP
    THEN [err |-> FALSE, dist |-> distance(next_x, next_y), steps |-> i]
    ELSE LET current_x == next_x + px
             current_y == IF up THEN next_y + py ELSE next_y + py - SCALE
         IN  IF point_in_wall(current_x, current_y)
             THEN [err |-> FALSE, dist |-> distance(next_x, next_y),
                   steps |-> i + 1]
             ELSE HMarch(i + 1, next_x + dx, next_y + dy, dx, dy, up, px, py)

\* main.py:146-165 of horizontal_intersection, tan being math.tan(angle).
HCast(px, py, up, tan) ==
    LET first_y == IF up THEN Ceil(py) - py ELSE Floor(py) - py
        dy == IF up THEN SCALE ELSE -SCALE
    IN  IF tan = 0 THEN Raised            \* -first_y / math.tan(angle)
        ELSE HMarch(0, Div(-first_y, tan), first_y, Div(-dy, tan), dy, up,
                    px, py)

\* Game.horizontal_intersection (main.py:143-165) for the player at (px, py).
horizontal_intersection(px, py, angle) ==
    HCast(px, py, ((angle \div PI) % 2) # 0, Tan(angle))

\* The loop of vertical_intersection (main.py:179-189) from iteration i.
RECURSIVE VMarch(_, _, _, _, _, _, _, _)
VMarch(i, next_x, next_y, dx, dy, right, px, py) ==
    IF i = MARCH_CAP
    THEN [err |-> FALSE, dist |-> distance(next_x, next_y), steps |-> i]
    ELSE LET current_x == IF right THEN next_x + px ELSE next_x + px - SCALE
             current_y == next_y + py
         IN  IF point_in_wall(current_x, current_y)
             THEN [err |-> FALSE, dist |-> distance(next_x, next_y),
                   steps |-> i + 1]
             ELSE VMarch(i + 1, next_x + dx, next_y + dy, dx, dy, right,
                         px, py)

\* main.py:170-189 of vertical_intersection, tan being math.tan(angle).
VCast(px, py, right, tan) ==
    LET first_x == IF right THEN Ceil(px) - px ELSE Floor(px) - px
        dx == IF right THEN SCALE ELSE -SCALE
    IN  VMarch(0, first_x, Mul(-tan, first_x), dx, Mul(dx, -tan), right,
               px, py)

\* Game.vertical_intersection (main.py:167-189) for the player at (px, py).
vertical_intersection(px, py, angle) ==
    VCast(px, py, (((angle - PI \div 2) \div PI) % 2) # 0, Tan(angle))

\* ------------------------------------------------------------------------
\* View projector
\* ------------------------------------------------------------------------
\* main.py:134-139 of get_view: the column for the casts h and v, cosd
\* being math.cos(angle - self.player_angle).  err is TRUE when the
\* iteration raised ZeroDivisionError (in a cast, or in the division by
\* min_dist * cos).
Project(h, v, cosd) ==
    LET shadow == ~(h.dist < v.dist)
        min_dist == IF shadow THEN v.dist ELSE h.dist
        den == Mul(min_dist, cosd)
        height == Sign(den) * ((WALL_HEIGHT * SCALE) \div Abs(den))
    IN  IF h.err \/ v.err \/ den = 0
        THEN [err |-> TRUE, height |-> 0, shadow |-> FALSE]
        ELSE [err |-> FALSE,
              height |-> IF height > VH THEN VH ELSE height,
              shadow |-> shadow]

\* starting_angle - idx * self.ANGLE_STEP  (main.py:124, 130)
CastAngle(pa, idx) == (pa + HALF_FOV) - idx * ANGLE_STEP

\* One iteration of the loop of get_view (main.py:128-139): the column idx
\* seen by the player at (px, py) facing pa.
ViewColumn(px, py, pa, idx) ==
    Project(horizontal_intersection(px, py, CastAngle(pa, idx)),
            vertical_intersection(px, py, CastAngle(pa, idx)),
            Cos(CastAngle(pa, idx) - pa))

\* Game.get_view (main.py:120-141): the columns 0 .. VW-1.
get_view(px, py, pa) == [idx \in 0 .. VW - 1 |-> ViewColumn(px, py, pa, idx)]

\* get_view raised instead of returning the list.
ViewRaised(walls) == \E idx \in DOMAIN walls : walls[idx].err

\* ------------------------------------------------------------------------
\* Screen compositor
\* ------------------------------------------------------------------------
\* A screen is a sequence of rows (row num of the source is scr[num + 1]);
\* a row is a sequence of one-character strings.
\* The screen of __init__ (main.py:15).
InitScreen == [row \in 1 .. VH |-> [i \in 1 .. VW |-> "+"]]

\* row[:x] + glyph + row[x + 1:]  (main.py:109, 111), for 0 <= x.
SetChar(row, x, glyph) ==
    SubSeq(row, 1, x) \o <<glyph>> \o SubSeq(row, x + 2, Len(row))

\* draw_line with the segment's first row taken as offset, not offset + 1.
draw_line_closed(scr, x, height, shadow) ==
    LET offset == (VH - height) \div 2
    IN  [n \in 1 .. Len(scr) |->
            IF offset <= n - 1 /\ n - 1 < VH - offset
            THEN SetChar(scr[n], x, IF ~shadow THEN "#" ELSE "+")
            ELSE SetChar(scr[n], x, " ")]

\* Game.draw_line (main.py:100-114): the new value of self.screen.
draw_line(scr, x, height, shadow) ==
    LET offset == (VH - height) \div 2
    IN  [n \in 1 .. Len(scr) |->
            IF offset + 1 <= n - 1 /\ n - 1 < VH - offset
            THEN SetChar(scr[n], x, IF ~shadow THEN "#" ELSE "+")
            ELSE SetChar(scr[n], x, " ")]

\* The loop of update (main.py:82-83) from column x on.
RECURSIVE DrawFrom(_, _, _)
DrawFrom(scr, walls, x) ==
    IF x >= VW THEN scr
    ELSE DrawFrom(draw_line(scr, x, walls[x].height, walls[x].shadow),
                  walls, x + 1)

DrawAll(scr, walls) == DrawFrom(scr, walls, 0)

\* ------------------------------------------------------------------------
\* State
\* ------------------------------------------------------------------------
VARIABLES
    pc,             \* where the process is: in run, in getch, or ended
    player_x,       \* self.player_x
    player_y,       \* self.player_y
    player_angle,   \* self.player_angle
    screen,         \* self.screen
    tty,            \* the mode of the terminal: "orig" or "cbreak"
    orig,           \* getch's local orig, "none" outside getch
    raising,        \* an exception is propagating through getch's finally
    key,            \* the key last returned by stdin.read(1), "none" before
    prev_key,       \* the key returned before that one, "none" before
    runs,           \* the number of runs of one repeated key read so far
    before,         \* the player's state when the last update began
    display,        \* the frame last written to stdout, "none" before
    shown_before,   \* the frame written before that one
    last_write,     \* what stdout received last: "none", "frame", "clear"
    rendered,       \* updates that drew their frame since the last key read
    flushed,        \* frames written since the last key read
    exit_code,      \* the exit status of the process, -1 while it runs
    call            \* the last direct call of a method and what it returned

player == <<player_x, player_y, player_angle>>
terminal == <<tty, orig, raising>>
input == <<key, prev_key, runs>>
output == <<display, shown_before, last_write, flushed>>

vars == <<pc, player, screen, terminal, input, before, output, rendered,
          exit_code, call>>

\* The keys the terminal may deliver: "x" stands for every key that update
\* does not recognise.
Keys == {"w", "a", "s", "d", "q", "x"}

\* game = Game(3.0, 3.0, 1.0)  (main.py:197)
InitX == 3 * SCALE
InitY == 3 * SCALE
InitAngle == 1 * SCALE

NoCall == [op |-> "none"]

\* Game.__init__ (main.py:7-40) apart from the player's state and the
\* screen, and the process before run.
Constructed ==
    /\ pc = "refresh"
    /\ tty = "orig"
    /\ orig = "none"
    /\ raising = FALSE
    /\ key = "none"
    /\ prev_key = "none"
    /\ runs = 0
    /\ before = [x |-> player_x, y |-> player_y, angle |-> player_angle]
    /\ display = "none"
    /\ shown_before = "none"
    /\ last_write = "none"
    /\ rendered = 0
    /\ flushed = 0
    /\ exit_code = -1
    /\ call = NoCall

Init ==
    /\ player_x = InitX
    /\ player_y = InitY
    /\ player_angle = InitAngle
    /\ screen = InitScreen
    /\ Constructed

\* ------------------------------------------------------------------------
\* Game.refresh_screen (main.py:116-118), called from run (main.py:192, 195)
\* ------------------------------------------------------------------------
\* run without its call of refresh_screen: nothing is written.
refresh_screen_skipped ==
    /\ pc = "refresh"
    /\ pc' = "getch"
    /\ UNCHANGED <<player, screen, terminal, input, before, output,
                   rendered, exit_code, call>>

refresh_screen ==
    /\ pc = "refresh"
    /\ display' = screen
    /\ shown_before' = display
    /\ last_write' = "frame"
    /\ flushed' = flushed + 1
    /\ pc' = "getch"
    /\ UNCHANGED <<player, screen, terminal, input, before, rendered,
                   exit_code, call>>

\* ------------------------------------------------------------------------
\* Game.getch (main.py:42-51)
\* ------------------------------------------------------------------------
\* orig = termios.tcgetattr(fd)  (main.py:45)
Tcgetattr ==
    /\ pc = "getch"
    /\ orig' = tty
    /\ pc' = "setcbreak"
    /\ UNCHANGED <<player, screen, tty, raising, input, before, output,
                   rendered, exit_code, call>>

\* tty.setcbreak(fd)  (main.py:48)
Setcbreak ==
    /\ pc = "setcbreak"
    /\ tty' = "cbreak"
    /\ pc' = "read"
    /\ UNCHANGED <<player, screen, orig, raising, input, before, output,
                   rendered, exit_code, call>>

\* tty.setcbreak(fd) raises termios.error: the terminal keeps its mode.
SetcbreakFails ==
    /\ pc = "setcbreak"
    /\ raising' = TRUE
    /\ pc' = "finally"
    /\ UNCHANGED <<player, screen, tty, orig, input, before, output,
                   rendered, exit_code, call>>

\* The keys the model explores: at most MaxRuns runs of a repeated key, and
\* the angles InitAngle .. InitAngle + MaxTurn * STEP_SIZE.
RunsAfter(k) == IF k = key THEN runs ELSE runs + 1

Explored(k) ==
    /\ RunsAfter(k) <= MaxRuns
    /\ k = "a" => player_angle + STEP_SIZE <= InitAngle + MaxTurn * STEP_SIZE
    /\ k = "d" => player_angle - STEP_SIZE >= InitAngle

\* return stdin.read(1)  (main.py:49): the return value is kept while the
\* finally clause runs.
Read(k) ==
    /\ pc = "read"
    /\ Explored(k)
    /\ key' = k
    /\ prev_key' = key
    /\ runs' = RunsAfter(k)
    /\ rendered' = 0
    /\ flushed' = 0
    /\ pc' = "finally"
    /\ UNCHANGED <<player, screen, terminal, before, display, shown_before,
                   last_write, exit_code, call>>

\* stdin.read(1) raises (an I/O error, KeyboardInterrupt).
ReadFails ==
    /\ pc = "read"
    /\ raising' = TRUE
    /\ pc' = "finally"
    /\ UNCHANGED <<player, screen, tty, orig, input, before, output,
                   rendered, exit_code, call>>

\* getch restoring the mode after a successful read only (no finally).
RestoredUnlessRaising(saved, current) == IF raising THEN current ELSE saved

\* The mode the finally clause leaves the terminal in  (main.py:50-51).
Restored(saved, current) == saved

\* finally: termios.tcsetattr(fd, termios.TCSAFLUSH, orig)  (main.py:50-51);
\* then getch returns the key to run, or the exception ends the process.
Finally ==
    /\ pc = "finally"
    /\ tty' = Restored(orig, tty)
    /\ orig' = "none"
    /\ raising' = FALSE
    /\ pc' = IF raising THEN "crashed" ELSE "update"
    /\ exit_code' = IF raising THEN 1 ELSE exit_code
    /\ UNCHANGED <<player, screen, input, before, output, rendered, call>>

\* ------------------------------------------------------------------------
\* Game.update (main.py:53-83)
\* ------------------------------------------------------------------------
\* The key dispatch with a final else that moves the player forward.
MovedAnyKey(k, x, y, angle) ==
    CASE k = "s" -> [x |-> x - Mul(Cos(angle), STEP_SIZE),
                     y |-> y - Mul(-Sin(angle), STEP_SIZE),
                     angle |-> angle]
      [] k = "d" -> [x |-> x, y |-> y, angle |-> angle - STEP_SIZE]
      [] k = "a" -> [x |-> x, y |-> y, angle |-> angle + STEP_SIZE]
      [] OTHER   -> [x |-> x + Mul(Cos(angle), STEP_SIZE),
                     y |-> y + Mul(-Sin(angle), STEP_SIZE),
                     angle |-> angle]

\* The key dispatch (main.py:60-70): the player's state after the key k.
Moved(k, x, y, angle) ==
    CASE k = "w" -> [x |-> x + Mul(Cos(angle), STEP_SIZE),
                     y |-> y + Mul(-Sin(angle), STEP_SIZE),
                     angle |-> angle]
      [] k = "s" -> [x |-> x - Mul(Cos(angle), STEP_SIZE),
                     y |-> y - Mul(-Sin(angle), STEP_SIZE),
                     angle |-> angle]
      [] k = "d" -> [x |-> x, y |-> y, angle |-> angle - STEP_SIZE]
      [] k = "a" -> [x |-> x, y |-> y, angle |-> angle + STEP_SIZE]
      [] OTHER   -> [x |-> x, y |-> y, angle |-> angle]

\* update without the collision check.
CommittedNever(previous, m) == m

\* The collision check restoring player_x alone.
CommittedXOnly(previous, m) ==
    IF point_in_wall(m.x, m.y) THEN [m EXCEPT !.x = previous.x] ELSE m

\* The collision check (main.py:78-79): previous is previous_position, m
\* the player's state after the dispatch.
Committed(previous, m) ==
    IF point_in_wall(m.x, m.y)
    THEN [m EXCEPT !.x = previous.x, !.y = previous.y]
    ELSE m

\* The "q" branch without exit(0): update goes on to draw the frame.
QuitWithoutExit ==
    /\ last_write' = "clear"
    /\ pc' = "refresh"
    /\ UNCHANGED <<player, screen, before, rendered, exit_code>>

\* update(key) for the key "q"  (main.py:72-74): exit(0) ends the process.
Quit ==
    /\ last_write' = "clear"
    /\ exit_code' = 0
    /\ pc' = "exited"
    /\ UNCHANGED <<player, screen, before, rendered>>

\* The drawing of update (main.py:82-83) for the player's new state m and
\* walls, the result of get_view.  get_view returns before the first
\* draw_line: when it raises, the player has moved and the screen is as it
\* was.
Composite(m, walls) ==
    /\ before' = [x |-> player_x, y |-> player_y, angle |-> player_angle]
    /\ player_x' = m.x
    /\ player_y' = m.y
    /\ player_angle' = m.angle
    /\ IF ViewRaised(walls)
       THEN /\ pc' = "crashed"
            /\ exit_code' = 1
            /\ UNCHANGED <<screen, rendered>>
       ELSE /\ pc' = "refresh"
            /\ screen' = DrawAll(screen, walls)
            /\ rendered' = rendered + 1
            /\ UNCHANGED exit_code
    /\ UNCHANGED last_write

Render(m) == Composite(m, get_view(m.x, m.y, m.angle))

\* update(key) for every other key  (main.py:56-70, 76-83).
Step ==
    Render(Committed([x |-> player_x, y |-> player_y],
                     Moved(key, player_x, player_y, player_angle)))

update ==
    /\ pc = "update"
    /\ IF key = "q" THEN Quit ELSE Step
    /\ UNCHANGED <<terminal, input, display, shown_before, flushed, call>>

\* ------------------------------------------------------------------------
\* The program: run (main.py:191-195) on Game(3.0, 3.0, 1.0)
\* ------------------------------------------------------------------------
Next ==
    \/ refresh_screen
    \/ Tcgetattr
    \/ Setcbreak
    \/ SetcbreakFails
    \/ \E k \in Keys : Read(k)
    \/ ReadFails
    \/ Finally
    \/ update

Spec == Init /\ [][Next]_vars

\* ------------------------------------------------------------------------
\* The methods called directly: a Game is constructed for any player and
\* with any screen contents, and one method is called on it once.
\* ------------------------------------------------------------------------
\* Centres of cells of the map (columns 0 .. 15, rows 0 .. 7) and of cells
\* beside, above and below it, and two grid lines.
CallXs == {c * SCALE + SCALE \div 2 : c \in -2 .. 16} \cup {2 * SCALE, InitX}

CallYs ==
    {r * SCALE + SCALE \div 2 : r \in {-10, -9, -8, -2} \cup (0 .. 8)}
        \cup {InitY}

CallAngles == {(q * PI) \div 4 : q \in -MaxQuarter .. MaxQuarter}

\* A screen whose columns hold all three glyphs.
MixedScreen ==
    [row \in 1 .. VH |->
        [i \in 1 .. VW |-> <<"#", " ", "+">>[((row + i) % 3) + 1]]]

CallScreens == {InitScreen, MixedScreen}

\* The heights get_view returns: int(min(VH, ...)) of a positive quotient
\* (main.py:139).
CallHeights == 0 .. VH

InMap(x, y) ==
    /\ 0 <= x /\ x < 16 * SCALE
    /\ 0 <= y /\ y < Len(MAP) * SCALE

CallInit ==
    /\ player_x \in CallXs
    /\ player_y \in CallYs
    /\ player_angle \in CallAngles
    /\ Constructed
    /\ \E scr \in CallScreens : screen = scr

\* self.point_in_wall(self.player_x, self.player_y), as at main.py:78.
CallPointInWall ==
    /\ pc = "refresh"
    /\ pc' = "returned"
    /\ call' = [op |-> "point_in_wall",
                ret |-> point_in_wall(player_x, player_y)]
    /\ UNCHANGED <<player, screen, terminal, input, before, output,
                   rendered, exit_code>>

\* self.horizontal_intersection(angle), as at main.py:132, along the
\* player's angle.
CallHorizontal ==
    /\ pc = "refresh"
    /\ pc' = "returned"
    /\ call' = [op |-> "horizontal_intersection",
                ret |-> horizontal_intersection(player_x, player_y,
                                                player_angle)]
    /\ UNCHANGED <<player, screen, terminal, input, before, output,
                   rendered, exit_code>>

\* self.vertical_intersection(angle), as at main.py:133.
CallVertical ==
    /\ pc = "refresh"
    /\ pc' = "returned"
    /\ call' = [op |-> "vertical_intersection",
                ret |-> vertical_intersection(player_x, player_y,
                                              player_angle)]
    /\ UNCHANGED <<player, screen, terminal, input, before, output,
                   rendered, exit_code>>

\* self.draw_line(x, height, shadow), as at main.py:83.
CallDrawLine(x, height, shadow) ==
    /\ pc = "refresh"
    /\ pc' = "returned"
    /\ screen' = draw_line(screen, x, height, shadow)
    /\ call' = [op |-> "draw_line", x |-> x, height |-> height,
                shadow |-> shadow, screen_before |-> screen]
    /\ UNCHANGED <<player, terminal, input, before, output, rendered,
                   exit_code>>

\* The drawing loop of update (main.py:82-83) on the screen as it is.
CallDrawView ==
    /\ pc = "refresh"
    /\ LET walls == get_view(player_x, player_y, player_angle)
       IN  IF ViewRaised(walls)
           THEN /\ pc' = "crashed"
                /\ call' = [op |-> "draw_view", raised |-> TRUE]
                /\ UNCHANGED screen
           ELSE /\ pc' = "returned"
                /\ call' = [op |-> "draw_view", raised |-> FALSE,
                            walls |-> walls]
                /\ screen' = DrawAll(screen, walls)
    /\ UNCHANGED <<player, terminal, input, before, output, rendered,
                   exit_code>>

CallNext ==
    \/ CallPointInWall
    \/ CallHorizontal
    \/ CallVertical
    \/ CallDrawView
    \/ \E x \in 0 .. VW - 1, height \in CallHeights, shadow \in BOOLEAN :
          CallDrawLine(x, height, shadow)

CallSpec == CallInit /\ [][CallNext]_vars

\* ------------------------------------------------------------------------
\* Claims
\* ------------------------------------------------------------------------
\* The update of the key last read has run (the key is read in getch, and
\* update runs once getch has returned it).
Updated == key # "none" /\ pc \notin {"finally", "update"}

\* The point the key k moves the player to from the state b, before the
\* collision check.
Target(k, b) ==
    [x |-> IF k = "w" THEN b.x + Mul(Cos(b.angle), STEP_SIZE)
                      ELSE b.x - Mul(Cos(b.angle), STEP_SIZE),
     y |-> IF k = "w" THEN b.y + Mul(-Sin(b.angle), STEP_SIZE)
                      ELSE b.y - Mul(-Sin(b.angle), STEP_SIZE)]

\* C1: from Game(3.0, 3.0, 1.0), whatever keys are read, the player's
\* position is never inside a wall.
CollisionInvariant == ~point_in_wall(player_x, player_y)

\* C1, witness: a "w" was read whose target is inside a wall, and update
\* has put the player back.
CollisionRolledBack ==
    /\ Updated /\ key = "w" /\ pc = "refresh"
    /\ point_in_wall(Target("w", before).x, Target("w", before).y)
    /\ player_x = before.x /\ player_y = before.y

\* C2 as claimed: point_in_wall is True for every point whose row index
\* int(y) lies outside 0 .. 7.
OutOfRowsIsWall ==
    (call.op = "point_in_wall" /\ Trunc(player_y) \notin 0 .. Len(MAP) - 1)
        => call.ret = TRUE

\* C3 as claimed: for int(y) in 0 .. 7 and int(x) in 0 .. 15, point_in_wall
\* is the cell int(x) of the row, column 0 being the leftmost of the row's
\* 16 bits (bit 15).
InRangeIsLeftmostFirst ==
    (/\ call.op = "point_in_wall"
     /\ Trunc(player_y) \in 0 .. Len(MAP) - 1
     /\ Trunc(player_x) \in 0 .. 15)
        => call.ret = Bit(MAP[Trunc(player_y) + 1], 15 - Trunc(player_x))

\* C4 as claimed: for a player inside the map and any angle, each cast
\* returns a distance >= 0 after at most 256 iterations, and does not raise.
CastsReturn ==
    (/\ call.op \in {"horizontal_intersection", "vertical_intersection"}
     /\ InMap(player_x, player_y))
        => /\ ~call.ret.err
           /\ call.ret.steps <= MARCH_CAP
           /\ call.ret.dist >= 0

\* C5 as claimed: after an unrecognised key the player's state is what it
\* was and the frame written after it is the frame written before it, also
\* for the first key after startup.
UnrecognisedKeyIdempotent ==
    /\ (Updated /\ key = "x")
          => /\ player_x = before.x
             /\ player_y = before.y
             /\ player_angle = before.angle
    /\ (key = "x" /\ pc = "getch") => display = shown_before

\* C5, amended: after an unrecognised key the player's state is what it was;
\* the frame written after it is the frame written before it when that
\* frame was drawn by an update, that is when the key is not the first one.
UnrecognisedKeyIdempotentAfterFirst ==
    /\ (Updated /\ key = "x")
          => /\ player_x = before.x
             /\ player_y = before.y
             /\ player_angle = before.angle
    /\ (key = "x" /\ pc = "getch" /\ prev_key # "none")
          => display = shown_before

\* C5, witness: an unrecognised key was read after a "w", and its frame is
\* written.
UnrecognisedKeyRedrawn ==
    /\ key = "x" /\ prev_key = "w" /\ pc = "getch"
    /\ flushed = 1 /\ rendered = 1
    /\ display = shown_before

\* C6: once "q" is read and update has run, the process has exited with
\* status 0, the last thing written is the clear sequence, nothing was
\* drawn or flushed after the key, and nothing more can happen; the process
\* exits in no other way with status 0.
QuitScenario ==
    /\ (Updated /\ key = "q")
          => /\ pc = "exited"
             /\ exit_code = 0
             /\ last_write = "clear"
             /\ rendered = 0
             /\ flushed = 0
             /\ screen = display
             /\ ~ENABLED Next
    /\ (pc = "exited" \/ exit_code = 0) => (Updated /\ key = "q")

\* C6, witness: "q" was read after a "w" and the process has exited.
QuitAfterMove == pc = "exited" /\ key = "q" /\ prev_key = "w"

\* C7: the terminal is in cbreak mode only between getch's setcbreak and its
\* finally clause, with the original mode saved; everywhere else, also when
\* getch raised and when the process has ended, it is in its original mode.
TerminalModeScoped ==
    /\ tty = "cbreak" => (pc \in {"read", "finally"} /\ orig = "orig")
    /\ pc \notin {"read", "finally"} => tty = "orig"

\* C7, witness: getch raised after some key had been handled, the process
\* has ended and the terminal is in its original mode.
GetchRaisedRestored ==
    /\ pc = "crashed" /\ flushed = 1 /\ key = "w" /\ tty = "orig"

\* C8: after update, for "w"/"s" the angle is unchanged and the position is
\* the target of the move when that is not a wall and the old position
\* (both coordinates) when it is; for "a"/"d" the position is unchanged and
\* the angle is the old one plus/minus STEP_SIZE.
ControllerEffects ==
    Updated =>
        CASE key \in {"w", "s"} ->
                 /\ player_angle = before.angle
                 /\ IF point_in_wall(Target(key, before).x,
                                     Target(key, before).y)
                    THEN player_x = before.x /\ player_y = before.y
                    ELSE /\ player_x = Target(key, before).x
                         /\ player_y = Target(key, before).y
          [] key = "a" ->
                 /\ player_angle = before.angle + STEP_SIZE
                 /\ player_x = before.x /\ player_y = before.y
          [] key = "d" ->
                 /\ player_angle = before.angle - STEP_SIZE
                 /\ player_x = before.x /\ player_y = before.y
          [] OTHER -> TRUE

\* C8, witness: an "s" was read whose target is inside a wall, at an angle
\* reached by turning, and update has put the player back.
BackwardRolledBack ==
    /\ Updated /\ key = "s" /\ pc = "refresh"
    /\ before.angle # InitAngle
    /\ point_in_wall(Target("s", before).x, Target("s", before).y)
    /\ player_x = before.x /\ player_y = before.y

\* The glyph draw_line is to leave in row r (from 0) of its column.
Glyph(r, height, shadow) ==
    IF (VH - height) \div 2 < r /\ r < VH - (VH - height) \div 2
    THEN (IF shadow THEN "+" ELSE "#")
    ELSE " "

\* C9: after draw_line(x, height, shadow) the screen has VH rows of VW
\* characters, column x holds the wall glyph in the rows strictly between
\* offset and VH - offset and a blank elsewhere, and the other columns are
\* as before; and after update's drawing loop the frame is determined by
\* the view alone, whatever the screen held.
ColumnCompositing ==
    /\ call.op = "draw_line" =>
          /\ Len(screen) = VH
          /\ \A r \in 0 .. VH - 1 :
                /\ Len(screen[r + 1]) = VW
                /\ \A c \in 0 .. VW - 1 :
                      screen[r + 1][c + 1] =
                          IF c = call.x
                          THEN Glyph(r, call.height, call.shadow)
                          ELSE call.screen_before[r + 1][c + 1]
    /\ (call.op = "draw_view" /\ ~call.raised) =>
          screen = [r \in 1 .. VH |->
                       [c \in 1 .. VW |->
                           Glyph(r - 1, call.walls[c - 1].height,
                                 call.walls[c - 1].shadow)]]

\* C9, witness: a shadowed line of height 2 was drawn in the last column of
\* the screen that held all three glyphs.
ShadowedLineDrawn ==
    /\ call.op = "draw_line"
    /\ call.x = VW - 1 /\ call.height = 2 /\ call.shadow
    /\ call.screen_before = MixedScreen
    /\ screen[VH \div 2 + 1][VW] = "+"
    /\ screen[1][VW] = " "

\* C10: the screen is flushed once before the first key is read; whenever a
\* key is about to be read, exactly one update has drawn and exactly one
\* frame (the whole current screen) has been flushed since the last key;
\* between the reading of a key and the end of its update nothing is
\* flushed, and the update draws once before the flush.
LoopOrdering ==
    /\ pc \in {"getch", "setcbreak", "read"}
          => /\ flushed = 1
             /\ rendered = (IF key = "none" THEN 0 ELSE 1)
             /\ display = screen
    /\ pc = "update" => (flushed = 0 /\ rendered = 0)
    /\ pc = "refresh"
          => /\ flushed = 0
             /\ rendered = (IF key = "none" THEN 0 ELSE 1)

\* C10, witness: after a "w" and its frame, an "a" is about to be handled
\* and the next key is about to be read.
SecondKeyAboutToBeRead ==
    /\ pc = "read" /\ key = "a" /\ prev_key = "w"
    /\ flushed = 1 /\ rendered = 1

====
